---- MODULE Spec2Model ----
(***************************************************************************)
(* Model of the manus-validation-kit: the code validation engine with its  *)
(* consensus scoring, the validate / learn / cleanup commands of the CLI,  *)
(* the learning loop and the context optimization (cleanup) engine.        *)
(*                                                                         *)
(* Weights and thresholds are kept in hundredths (0.95 is 95), so that the *)
(* comparisons and the score arithmetic are exact integer arithmetic.      *)
(***************************************************************************)
EXTENDS Integers, Sequences, FiniteSets, TLC

VARIABLES
  mode,        \* which entry point drives this run: "engine", "cli", "learn", "cleanup"
  pc,          \* position of the running command / call
  opts,        \* command line options of the running command
  local,       \* local variables of the running command's action
  configFile,  \* contents of .validation/config.json
  config,      \* ValidationEngine.config (after the constructor's merge)
  toRun,       \* validatorsToRun of the current validate() call
  results,     \* results collected so far by validate()
  report,      \* the ValidationReport returned by validate()
  exitCode,    \* exit code of the process; NotExited while it runs
  learning,    \* .validation/learning-data.json (LearningLoop.data once loaded)
  lastFix,     \* value returned by the last applyAutoFixes()
  reportsDir,  \* files of .validation/reports
  archiveDir,  \* files of .validation/archive
  now,         \* the current date, in days
  auditEngine, \* the fields of the CodebaseAuditEngine
  toolOutputs, \* what each audit tool printed, or that it threw, once it has run
  auditReport, \* the AuditReport returned by audit()
  cleanupPlan, \* the CleanupPlan generated from the audit report
  sdkDisk,     \* the guardrails configuration files that exist
  sdkProject,  \* the files of the project the guardrails scan
  sdkConfig,   \* SDKGuardrailsEngine.config
  sdkOpts,     \* the options of the last SDKGuardrailsEngine.validate() call
  sdkResult    \* what that call returned, or that it threw

vars == <<mode, pc, opts, local, configFile, config, toRun, results, report, exitCode,
          learning, lastFix, reportsDir, archiveDir, now,
          auditEngine, toolOutputs, auditReport, cleanupPlan,
          sdkDisk, sdkProject, sdkConfig, sdkOpts, sdkResult>>

----------------------------------------------------------------------------
(* Bounds *)

\* at most this many validators of one validate() call do anything but pass cleanly
MaxDeviating == 2
\* the same, for a validate() call made by the validate command of the CLI
MaxDeviatingCli == 1
\* at most this many issues are parsed from the output of one validator
MaxIssuesPerResult == 2
\* recordResults() is not called once the learning data holds this many failures
MaxFailures == 4
\* the same bound while the cleanup command is exercised
MaxCleanupFailures == 1
\* no report is saved once the two directories hold this many files
MaxReports == 2

----------------------------------------------------------------------------
(* Configuration: src/config/default.config *)

ValidatorOrder ==
  << "zod_schema_validation", "database_migration_check", "typescript", "biome",
     "jest_unit", "eslint", "api_contract_test", "docker_build_check",
     "security_scan", "performance_check" >>

VCfg(w, r, e) == [weight |-> w, required |-> r, enabled |-> e]

DEFAULT_VALIDATORS ==
  [ validators |->
      [ zod_schema_validation    |-> VCfg(99, TRUE,  TRUE),
        database_migration_check |-> VCfg(98, TRUE,  TRUE),
        typescript               |-> VCfg(96, TRUE,  TRUE),
        biome                    |-> VCfg(94, FALSE, TRUE),
        jest_unit                |-> VCfg(93, TRUE,  TRUE),
        eslint                   |-> VCfg(92, FALSE, TRUE),
        api_contract_test        |-> VCfg(91, FALSE, TRUE),
        docker_build_check       |-> VCfg(90, FALSE, FALSE),
        security_scan            |-> VCfg(88, FALSE, TRUE),
        performance_check        |-> VCfg(85, FALSE, FALSE) ],
    consensus |-> [ minValidatorsToFlag |-> 2, singleValidatorThreshold |-> 95 ] ]

\* the empty object / an absent Partial<...>
Undefined == [x \in {} |-> 0]

\* Partial<ValidationEngineConfig> objects handed to the constructor
PartialConfigs ==
  { [validators |-> Undefined, consensus |-> Undefined],
    [validators |-> [biome |-> VCfg(95, FALSE, TRUE)], consensus |-> Undefined] }

\* ValidationEngine.constructor: spread of the defaults, then of the given config
Constructor(partial) ==
  [ validators |-> partial.validators @@ DEFAULT_VALIDATORS.validators,
    consensus  |-> partial.consensus @@ DEFAULT_VALIDATORS.consensus ]

----------------------------------------------------------------------------
(* Issues and validator runs *)

\* the issues a validator's output can be parsed into (ValidationIssue)
\* a message: its words, and the quoted identifier it mentions ("" when it has none)
Msg(text, ident) == [text |-> text, ident |-> ident]

IssueA ==
  [file |-> "a.ts", line |-> 1, code |-> "E1",
   message |-> Msg(<<"field", "is", "nullable">>, "foo"), severity |-> "critical"]
IssueB ==
  [file |-> "b.ts", line |-> 2, code |-> "W2",
   message |-> Msg(<<"line", "too", "long">>, ""), severity |-> "medium"]
IssueUniverse == {IssueA, IssueB}

\* the issue runValidator makes up when the command cannot be executed at all;
\* err.message names the command, which stands here as the validator's name
ValidatorErrorIssue(name) ==
  [file |-> "", line |-> 0, code |-> "VALIDATOR_ERROR",
   message |-> Msg(<<"Validator", "failed", "to", "execute", name>>, ""),
   severity |-> "critical"]

\* issue lists parsed from an output, up to the order of the issues in it
RECURSIVE IssueLists(_)
IssueLists(n) ==
  IF n = 0 THEN { <<>> }
  ELSE IssueLists(n - 1) \cup
       { Append(l, i) : l \in {m \in IssueLists(n - 1) : Len(m) = n - 1}, i \in IssueUniverse }

SortedIssueLists ==
  { l \in IssueLists(MaxIssuesPerResult) :
      \A k \in 1..(Len(l) - 1) : l[k].line <= l[k + 1].line }

\* what happened to the validator's command: it exited with 0 ("ok"), it failed
\* and left output behind ("errOut"), or it failed without any output ("errNoOut")
Outcomes ==
  [kind : {"ok", "errOut"}, issues : SortedIssueLists] \cup
  { [kind |-> "errNoOut", issues |-> <<>>] }

CleanPass == [kind |-> "ok", issues |-> <<>>]

SeqToSet(s) == { s[k] : k \in 1..Len(s) }

\* ValidationEngine.runValidator
runValidator(name, cfg, outcome) ==
  IF outcome.kind = "ok" THEN
    [ validator |-> name,
      status |-> IF \E i \in SeqToSet(outcome.issues) : i.severity \in {"critical", "high"}
                 THEN "failed" ELSE "passed",
      weight |-> cfg.weight,
      issues |-> outcome.issues ]
  ELSE IF outcome.kind = "errOut" THEN
    [ validator |-> name,
      status |-> IF Len(outcome.issues) > 0 THEN "failed" ELSE "error",
      weight |-> cfg.weight,
      issues |-> outcome.issues ]
  ELSE
    [ validator |-> name,
      status |-> "error",
      weight |-> cfg.weight,
      issues |-> << ValidatorErrorIssue(name) >> ]

\* ValidationEngine.createSkippedResult
createSkippedResult(name, cfg) ==
  [ validator |-> name, status |-> "skipped", weight |-> cfg.weight, issues |-> <<>> ]

\* ValidationEngine.getValidatorsToRun: the configured names, in the order of the
\* configuration object, filtered by the given names (all when none is given)
getValidatorsToRun(cfg, validatorNames) ==
  LET allValidators == SelectSeq(ValidatorOrder, LAMBDA n : n \in DOMAIN cfg.validators)
  IN IF Len(validatorNames) = 0 THEN allValidators
     ELSE SelectSeq(allValidators, LAMBDA n : n \in SeqToSet(validatorNames))

----------------------------------------------------------------------------
(* Consensus, score and status: src/core/ValidationEngine.ts *)

\* the key of applyConsensus; an undefined file or line gives the empty string
IssueKey(issue) ==
  [file |-> issue.file, line |-> issue.line, code |-> issue.code, message |-> issue.message]

\* the issues of the results in the order the two nested loops visit them
RECURSIVE Flatten(_)
Flatten(rs) ==
  IF rs = <<>> THEN <<>>
  ELSE [k \in 1..Len(Head(rs).issues) |->
          [validator |-> Head(rs).validator, weight |-> Head(rs).weight,
           issue |-> Head(rs).issues[k]]] \o Flatten(Tail(rs))

\* one iteration of the inner loop of applyConsensus on the issue map
AddIssue(map, e) ==
  IF \E k \in 1..Len(map) : IssueKey(map[k].issue) = IssueKey(e.issue)
  THEN LET k == CHOOSE j \in 1..Len(map) : IssueKey(map[j].issue) = IssueKey(e.issue)
       IN [map EXCEPT ![k].validators = Append(@, e.validator),
                      ![k].combinedWeight = @ + e.weight]
  ELSE Append(map, [issue |-> e.issue, validators |-> <<e.validator>>,
                    combinedWeight |-> e.weight, flaggedByConsensus |-> FALSE])

RECURSIVE BuildIssueMap(_, _)
BuildIssueMap(flat, map) ==
  IF flat = <<>> THEN map ELSE BuildIssueMap(Tail(flat), AddIssue(map, Head(flat)))

\* the consensus rule applied to one entry of the issue map
Flagged(ci, consensus) ==
  \/ Len(ci.validators) >= consensus.minValidatorsToFlag
  \/ ci.combinedWeight >= consensus.singleValidatorThreshold

\* ValidationEngine.applyConsensus
applyConsensus(cfg, rs) ==
  LET map == BuildIssueMap(Flatten(rs), <<>>)
  IN [k \in 1..Len(map) |->
        [map[k] EXCEPT !.flaggedByConsensus = Flagged(map[k], cfg.consensus)]]

RECURSIVE SumWeights(_)
SumWeights(rs) == IF rs = <<>> THEN 0 ELSE Head(rs).weight + SumWeights(Tail(rs))

CountSeq(s, Test(_)) == Cardinality({k \in 1..Len(s) : Test(s[k])})

Max(a, b) == IF a >= b THEN a ELSE b
Min(a, b) == IF a <= b THEN a ELSE b

\* a JavaScript number that is an integer or NaN
Num(n) == [nan |-> FALSE, val |-> n]
NaN == [nan |-> TRUE, val |-> 0]

\* ValidationEngine.calculateScore.  0 / 0 is NaN, and NaN survives Math.round and
\* Math.max.  Math.round rounds halves up: round(x) = floor(x + 1/2).
calculateScore(rs, cis) ==
  LET totalWeight == SumWeights(rs)
      passedWeight == SumWeights(SelectSeq(rs, LAMBDA r : r.status = "passed"))
      criticalCount == CountSeq(cis, LAMBDA ci : ci.flaggedByConsensus /\ ci.issue.severity = "critical")
      highCount == CountSeq(cis, LAMBDA ci : ci.flaggedByConsensus /\ ci.issue.severity = "high")
      deduction == (criticalCount * 10) + (highCount * 5)
  IN IF totalWeight = 0 THEN NaN
     ELSE Num(Max(0, (200 * passedWeight - 2 * deduction * totalWeight + totalWeight)
                        \div (2 * totalWeight)))

\* determineOverallStatus without the test of the validator's required flag: any
\* failed result makes the report failed
MutDetermineOverallStatus(cfg, rs, cis) ==
  LET hasFailure == \E k \in 1..Len(rs) : rs[k].status = "failed"
      hasCriticalConsensus ==
        \E k \in 1..Len(cis) : cis[k].flaggedByConsensus /\ cis[k].issue.severity = "critical"
      hasAnyError == \E k \in 1..Len(rs) : rs[k].status = "error"
  IN IF hasFailure THEN "failed"
     ELSE IF hasCriticalConsensus THEN "failed"
     ELSE IF hasAnyError THEN "error"
     ELSE "passed"

\* ValidationEngine.determineOverallStatus
determineOverallStatus(cfg, rs, cis) ==
  LET hasRequiredFailure ==
        \E k \in 1..Len(rs) :
           /\ rs[k].validator \in DOMAIN cfg.validators
           /\ cfg.validators[rs[k].validator].required
           /\ rs[k].status = "failed"
      hasCriticalConsensus ==
        \E k \in 1..Len(cis) : cis[k].flaggedByConsensus /\ cis[k].issue.severity = "critical"
      hasAnyError == \E k \in 1..Len(rs) : rs[k].status = "error"
  IN IF hasRequiredFailure THEN "failed"
     ELSE IF hasCriticalConsensus THEN "failed"
     ELSE IF hasAnyError THEN "error"
     ELSE "passed"

\* ValidationEngine.generateSummary
generateSummary(rs) ==
  [ totalValidators |-> Len(rs),
    passed  |-> CountSeq(rs, LAMBDA r : r.status = "passed"),
    failed  |-> CountSeq(rs, LAMBDA r : r.status = "failed"),
    skipped |-> CountSeq(rs, LAMBDA r : r.status = "skipped"),
    errors  |-> CountSeq(rs, LAMBDA r : r.status = "error"),
    totalIssues |-> Len(Flatten(rs)),
    criticalIssues |-> CountSeq(Flatten(rs), LAMBDA e : e.issue.severity = "critical"),
    highIssues |-> CountSeq(Flatten(rs), LAMBDA e : e.issue.severity = "high") ]

\* the report validate() builds from the collected results
MakeReport(cfg, rs) ==
  LET consensusIssues == applyConsensus(cfg, rs)
  IN [ status |-> determineOverallStatus(cfg, rs, consensusIssues),
       score |-> calculateScore(rs, consensusIssues),
       results |-> rs,
       consensusIssues |-> consensusIssues,
       summary |-> generateSummary(rs) ]

\* no validate() call has returned yet
NoReport ==
  [ status |-> "none", score |-> Num(0), results |-> <<>>, consensusIssues |-> <<>>,
    summary |-> generateSummary(<<>>) ]

----------------------------------------------------------------------------
(* Learning loop: src/learning/LearningLoop.ts.  The learning data is the    *)
(* contents of .validation/learning-data.json: every command loads it when    *)
(* it constructs its LearningLoop and saves it at the end of recordResults()  *)
(* and applyAutoFixes().  The metrics of the data (moving averages of the     *)
(* validators' accuracy and totals derived from the failures) are left out.   *)

\* a ratio of two integers; rates and confidences are kept exact
Frac(n, d) == [num |-> n, den |-> d]
FracGE(f, n, d) == f.num * d >= n * f.den
FracGT(f, n, d) == f.num * d > n * f.den

NoFix == ""

\* LearningLoop.loadData when there is no learning-data.json yet
EmptyLearning == [failures |-> <<>>, patterns |-> <<>>]

\* LearningLoop.identifyPattern: the code and the message with its quoted
\* identifier replaced by a placeholder
identifyPattern(issue) ==
  [ code |-> issue.code,
    text |-> issue.message.text,
    ident |-> IF issue.message.ident = "" THEN "" ELSE "<identifier>" ]

\* pattern.includes(word), on the words of the pattern
Includes(pattern, word) == word \in SeqToSet(pattern.text) \cup {pattern.code, pattern.ident}

\* the first element of a sequence that satisfies Test (Array.prototype.find)
FindIndex(s, Test(_)) ==
  IF \E k \in 1..Len(s) : Test(s[k])
  THEN CHOOSE k \in 1..Len(s) : Test(s[k]) /\ \A j \in 1..(k - 1) : ~Test(s[j])
  ELSE 0

\* LearningLoop.calculateConfidence
calculateConfidence(data, pattern) ==
  LET k == FindIndex(data.patterns, LAMBDA p : p.pattern = pattern)
  IN IF k = 0 THEN Frac(3, 10)
     ELSE LET existingPattern == data.patterns[k]
              base10 == Min(9, 3 + existingPattern.occurrences)
              sum == Frac(base10 * existingPattern.fixRate.den + 2 * existingPattern.fixRate.num,
                          10 * existingPattern.fixRate.den)
          IN IF FracGT(sum, 99, 100) THEN Frac(99, 100) ELSE sum

\* LearningLoop.createFailureRecord
createFailureRecord(data, validator, issue, timestamp) ==
  [ timestamp |-> timestamp,
    validator |-> validator,
    errorCode |-> issue.code,
    errorMessage |-> issue.message,
    pattern |-> identifyPattern(issue),
    confidence |-> calculateConfidence(data, identifyPattern(issue)),
    fixApplied |-> NoFix,
    fixSucceeded |-> FALSE ]

\* LearningLoop.suggestFix
suggestFix(pattern) ==
  IF Includes(pattern, "nullable") \/ Includes(pattern, "optional")
    THEN "Add .nullable() or .optional() to Zod schema field"
  ELSE IF Includes(pattern, "any") THEN "Replace any type with specific type or unknown"
  ELSE IF Includes(pattern, "unused") THEN "Remove unused variable or prefix with underscore"
  ELSE IF Includes(pattern, "import") THEN "Check import path and ensure module exists"
  ELSE NoFix

\* the distinct patterns of the failures, in the order of their first failure
RECURSIVE PatternOrder(_, _)
PatternOrder(failures, seen) ==
  IF failures = <<>> THEN seen
  ELSE PatternOrder(Tail(failures),
         IF Head(failures).pattern \in SeqToSet(seen) THEN seen
         ELSE Append(seen, Head(failures).pattern))

\* Array.prototype.sort by occurrences, descending; the sort is stable
RECURSIVE InsertByOccurrences(_, _)
InsertByOccurrences(sorted, p) ==
  IF sorted = <<>> THEN <<p>>
  ELSE IF Head(sorted).occurrences >= p.occurrences
       THEN <<Head(sorted)>> \o InsertByOccurrences(Tail(sorted), p)
       ELSE <<p>> \o sorted

RECURSIVE SortByOccurrences(_, _)
SortByOccurrences(ps, sorted) ==
  IF ps = <<>> THEN sorted
  ELSE SortByOccurrences(Tail(ps), InsertByOccurrences(sorted, Head(ps)))

MinOf(S) == CHOOSE x \in S : \A y \in S : x <= y
MaxOf(S) == CHOOSE x \in S : \A y \in S : x >= y

\* the auto-fix criterion on a pattern's failures
AutoFixReady(count, fixedCount) == count >= 3 /\ fixedCount * 10 >= 8 * count

\* LearningLoop.detectPatterns
detectPatterns(data) ==
  LET order == PatternOrder(data.failures, <<>>)
      Entry(pattern) ==
        LET failures == SelectSeq(data.failures, LAMBDA f : f.pattern = pattern)
            k == FindIndex(data.patterns, LAMBDA p : p.pattern = pattern)
            fixedCount == CountSeq(failures, LAMBDA f : f.fixSucceeded)
        IN [ pattern |-> pattern,
             description |-> [validator |-> failures[1].validator, message |-> failures[1].errorMessage],
             occurrences |-> Len(failures),
             firstSeen |-> MinOf({failures[j].timestamp : j \in 1..Len(failures)}),
             lastSeen |-> MaxOf({failures[j].timestamp : j \in 1..Len(failures)}),
             fixRate |-> Frac(fixedCount, Len(failures)),
             suggestedFix |-> IF k # 0 /\ data.patterns[k].suggestedFix # NoFix
                              THEN data.patterns[k].suggestedFix
                              ELSE suggestFix(pattern),
             autoFixReady |-> AutoFixReady(Len(failures), fixedCount) ]
  IN [data EXCEPT !.patterns =
        SortByOccurrences([j \in 1..Len(order) |-> Entry(order[j])], <<>>)]

\* LearningLoop.recordResults
recordResults(data, rs, timestamp) ==
  LET flat == Flatten(SelectSeq(rs, LAMBDA r : r.status \in {"failed", "error"}))
      records == [k \in 1..Len(flat) |->
                    createFailureRecord(data, flat[k].validator, flat[k].issue, timestamp)]
  IN detectPatterns([data EXCEPT !.failures = @ \o records])

\* LearningLoop.updatePatternFixRates
updatePatternFixRates(data) ==
  [data EXCEPT !.patterns =
     [k \in 1..Len(data.patterns) |->
        LET matchingFailures ==
              SelectSeq(data.failures, LAMBDA f : f.pattern = data.patterns[k].pattern)
            fixedCount == CountSeq(matchingFailures, LAMBDA f : f.fixSucceeded)
        IN [data.patterns[k] EXCEPT
              !.fixRate = IF Len(matchingFailures) > 0
                          THEN Frac(fixedCount, Len(matchingFailures)) ELSE Frac(0, 1),
              !.autoFixReady = AutoFixReady(Len(matchingFailures), fixedCount)]]]

\* LearningLoop.applyFix: the fix succeeds when the failure's confidence is above 0.7
applyFix(failure) == FracGT(failure.confidence, 7, 10)

\* the failures applyAutoFixes() tries to fix: for every pattern that is ready
\* and has a suggested fix, its first 5 failures that have no fix applied
FixTargets(data) ==
  { k \in 1..Len(data.failures) :
      /\ data.failures[k].fixApplied = NoFix
      /\ \E j \in 1..Len(data.patterns) :
           /\ data.patterns[j].autoFixReady
           /\ data.patterns[j].suggestedFix # NoFix
           /\ data.patterns[j].pattern = data.failures[k].pattern
      /\ Cardinality({i \in 1..(k - 1) :
                        /\ data.failures[i].pattern = data.failures[k].pattern
                        /\ data.failures[i].fixApplied = NoFix}) < 5 }

\* LearningLoop.applyAutoFixes: the data it saves and the counts it returns
applyAutoFixes(data) ==
  LET targets == FixTargets(data)
      FixOf(f) ==
        data.patterns[FindIndex(data.patterns, LAMBDA p : p.pattern = f.pattern)].suggestedFix
      fixed == [data EXCEPT !.failures =
                 [k \in 1..Len(data.failures) |->
                    IF k \in targets /\ applyFix(data.failures[k])
                    THEN [data.failures[k] EXCEPT !.fixApplied = FixOf(data.failures[k]),
                                                  !.fixSucceeded = TRUE]
                    ELSE data.failures[k]]]
  IN [ data |-> updatePatternFixRates(fixed),
       applied |-> Cardinality(targets),
       succeeded |-> Cardinality({k \in targets : applyFix(data.failures[k])}) ]

----------------------------------------------------------------------------
(* Context optimization: src/optimization/ContextOptimization.ts.  Dates are  *)
(* whole days.  A file of .validation/reports or .validation/archive is a      *)
(* record: its name, whether it is a .gz file, the date of its last            *)
(* modification (mtime) and the date the report in it was written.             *)

DEFAULT_CLEANUP_CONFIG ==
  [ maxActiveSize |-> 512000,
    maxFailureCount |-> 1000,
    maxPatternCount |-> 100,
    retentionDays |-> 30,
    archiveAfterDays |-> 7,
    compressAfterDays |-> 14,
    deleteAfterDays |-> 90 ]

\* ContextOptimization.constructor
CleanupConstructor(partial) == partial @@ DEFAULT_CLEANUP_CONFIG

\* Array.prototype.slice(-n) and slice(0, n)
LastN(s, n) == IF Len(s) <= n THEN s ELSE SubSeq(s, Len(s) - n + 1, Len(s))
FirstN(s, n) == IF Len(s) <= n THEN s ELSE SubSeq(s, 1, n)

\* ContextOptimization.pruneOldFailures
pruneOldFailures(cfg, data, today) ==
  LET cutoffDate == today - cfg.retentionDays
  IN [data EXCEPT !.failures =
        LastN(SelectSeq(data.failures, LAMBDA f : f.timestamp > cutoffDate),
              Max(100, cfg.maxFailureCount))]

\* ContextOptimization.pruneLowConfidencePatterns
pruneLowConfidencePatterns(cfg, data) ==
  [data EXCEPT !.patterns =
     FirstN(SelectSeq(data.patterns,
                      LAMBDA p : p.occurrences >= 3 \/ FracGE(p.fixRate, 2, 10)),
            cfg.maxPatternCount)]

File(name, gz, mtime, written) ==
  [name |-> name, gz |-> gz, mtime |-> mtime, written |-> written]

\* writing or renaming a file replaces the file of the same name
PutFile(dir, f) == {g \in dir : ~(g.name = f.name /\ g.gz = f.gz)} \cup {f}

\* the directories, as the pair <<reports, archive>>, after each step
\* ContextOptimization.archiveOldReports
archiveOldReports(cfg, dirs, today) ==
  LET cutoffDate == today - cfg.archiveAfterDays
      old == {f \in dirs[1] : f.mtime < cutoffDate}
  IN << dirs[1] \ old,
        {g \in dirs[2] : ~\E f \in old : f.name = g.name /\ f.gz = g.gz} \cup old >>

\* ContextOptimization.compressOldArchives
compressOldArchives(cfg, dirs, today) ==
  LET cutoffDate == today - cfg.compressAfterDays
      old == {f \in dirs[2] : ~f.gz /\ f.mtime < cutoffDate}
      compressed == {File(f.name, TRUE, today, f.written) : f \in old}
  IN << dirs[1],
        {g \in dirs[2] \ old : ~\E f \in compressed : f.name = g.name /\ f.gz = g.gz}
          \cup compressed >>

\* ContextOptimization.deleteOldArchives
deleteOldArchives(cfg, dirs, today) ==
  LET cutoffDate == today - cfg.deleteAfterDays
  IN << dirs[1], {f \in dirs[2] : ~(f.mtime < cutoffDate)} >>

\* ContextOptimization.cleanup: the five steps in their order, and the report
cleanup(cfg, data, dirs, today) ==
  LET data1 == pruneOldFailures(cfg, data, today)
      data2 == pruneLowConfidencePatterns(cfg, data1)
      dirs3 == archiveOldReports(cfg, dirs, today)
      dirs4 == compressOldArchives(cfg, dirs3, today)
      dirs5 == deleteOldArchives(cfg, dirs4, today)
  IN [ data |-> data2,
       reports |-> dirs5[1],
       archive |-> dirs5[2],
       itemsRemoved |-> (Len(data.failures) - Len(data1.failures))
                        + (Len(data1.patterns) - Len(data2.patterns))
                        + Cardinality(dirs4[2] \ dirs5[2]),
       itemsArchived |-> Cardinality(dirs[1] \ dirs3[1]),
       itemsCompressed |-> Cardinality({f \in dirs3[2] : ~f.gz} \ dirs4[2]) ]

\* the sizes getMetrics() can measure: a small project and an overgrown one
MetricsSamples ==
  { [activeSize |-> 2000, archivedSize |-> 0],
    [activeSize |-> 600000, archivedSize |-> 0],
    [activeSize |-> 2000, archivedSize |-> 500000] }

\* ContextOptimization.shouldCleanup, on the metrics getMetrics() returns
shouldCleanup(cfg, metrics) ==
  LET totalSize == metrics.activeSize + metrics.archivedSize
      tokenEstimate == (totalSize + 2) \div 4
  IN metrics.activeSize > cfg.maxActiveSize \/ tokenEstimate > 100000

----------------------------------------------------------------------------
(* The codebase audit: src/audit/CodebaseAuditEngine.ts and                   *)
(* src/audit/AuditReportGenerator.ts                                          *)
(*                                                                            *)
(* A target is the string a tool reports, kept with the file paths and        *)
(* package names that occur in it (what String.includes can find). A file is  *)
(* kept with the directories of its relative path and the exclusion patterns  *)
(* whose regular expression matches it. The id of a finding (type, clock and  *)
(* a random suffix) and the timestamps are left out.                          *)

\* the tools in the order audit() runs them
AuditTools == <<"depcheck", "ts-prune", "unimported", "jscpd", "madge">>

ToolNames == SeqToSet(AuditTools) \cup {"cost-of-modules"}

\* CodebaseAuditEngine.mergeConfig: defaultConfig
DefaultAuditConfig ==
  [ enabled |-> TRUE,
    tools |-> [t \in ToolNames |-> [enabled |-> (t # "cost-of-modules")]],
    thresholds |-> [ minConfidenceToReport |-> 50,
                     minConfidenceToRecommend |-> 70,
                     staleFileDays |-> 180 ],
    exclusions |-> [ paths |-> {"node_modules/", "dist/", "build/", ".git/", "__tests__/",
                                "__mocks__/", "migrations/"},
                     packages |-> {[star |-> TRUE, text |-> "@types/"]},
                     patterns |-> {"*.config.js", "*.config.ts", "*.d.ts", "*.test.ts",
                                   "*.spec.ts"} ] ]

\* one level of the object spread { ...defaults, ...user } for a field the
\* user configuration may lack
Spread(defaults, user, field) ==
  IF field \in DOMAIN user THEN user[field] @@ defaults[field] ELSE defaults[field]

\* CodebaseAuditEngine.mergeConfig
mergeConfig(userConfig) ==
  IF userConfig = Undefined
  THEN DefaultAuditConfig
  ELSE [ enabled |-> IF "enabled" \in DOMAIN userConfig
                     THEN userConfig.enabled ELSE DefaultAuditConfig.enabled,
         tools |-> Spread(DefaultAuditConfig, userConfig, "tools"),
         thresholds |-> Spread(DefaultAuditConfig, userConfig, "thresholds"),
         exclusions |-> Spread(DefaultAuditConfig, userConfig, "exclusions") ]

\* the Partial<AuditConfig> objects handed to the constructor: none, a lower
\* reporting threshold, and two with a tool switched off
AuditUserConfigs ==
  { Undefined,
    [thresholds |-> [minConfidenceToReport |-> 30]],
    [tools |-> ("madge" :> [enabled |-> FALSE])],
    [tools |-> ("depcheck" :> [enabled |-> FALSE])] }

\* the packages and the source files of the audited project
Package(name, scope) == [name |-> name, scope |-> scope]
SourceFile(p, dirs, patterns) == [path |-> p, dirs |-> dirs, patterns |-> patterns]

Lodash == Package("lodash", "")
Jest == Package("jest", "")
TypesNode == Package("@types/node", "@types/")

OldModule == SourceFile("src/legacy/old-module.ts", {"src/", "legacy/"}, {})
Utils == SourceFile("src/utils.ts", {"src/"}, {})
OldTest == SourceFile("src/__tests__/old.test.ts", {"src/", "__tests__/"}, {"*.test.ts"})

Target(text, mentions) == [text |-> text, mentions |-> mentions]

\* CodebaseAuditEngine.loadKeepList: the contents of .validation/keep.json, or
\* the empty list when the file is absent
EmptyKeepList == [files |-> {}, packages |-> {}]

KeepLists ==
  { EmptyKeepList,
    [files |-> {}, packages |-> {"lodash"}],
    [files |-> {"src/legacy/old-module.ts"}, packages |-> {}],
    [files |-> {"src/legacy/old-module.ts"}, packages |-> {"lodash", "jest"}] }

\* CodebaseAuditEngine.isPathExcluded
isPathExcluded(cfg, file) ==
  \/ \E excludePath \in cfg.exclusions.paths : excludePath \in file.dirs
  \/ \E pattern \in cfg.exclusions.patterns : pattern \in file.patterns

\* CodebaseAuditEngine.isPackageExcluded
isPackageExcluded(cfg, pkg) ==
  \E pattern \in cfg.exclusions.packages :
     IF pattern.star THEN pkg.scope = pattern.text ELSE pkg.name = pattern.text

\* CodebaseAuditEngine.isInKeepList, with the loop over the packages forgotten
MutIsInKeepList(keep, target) ==
  \E file \in keep.files : file \in target.mentions

\* CodebaseAuditEngine.isInKeepList
isInKeepList(keep, target) ==
  \/ \E file \in keep.files : file \in target.mentions
  \/ \E pkg \in keep.packages : target.text = pkg

\* the category of a confidence
CategoryOf(confidence) ==
  IF confidence >= 80 THEN "high" ELSE IF confidence >= 60 THEN "medium" ELSE "low"

\* CodebaseAuditEngine.createFinding, with the category boundaries moved
MutCreateFinding(keep, params) ==
  LET c0 == params.baseConfidence
      c1 == IF isInKeepList(keep, params.target) THEN c0 - 20 ELSE c0
      c2 == IF Len(params.evidence) > 1 THEN c1 + 15 ELSE c1
      confidence == Max(0, Min(100, c2))
  IN [ type |-> params.type,
       target |-> params.target.text,
       confidence |-> confidence,
       category |-> IF confidence > 80 THEN "high"
                    ELSE IF confidence > 60 THEN "medium" ELSE "low",
       evidence |-> params.evidence ]

\* CodebaseAuditEngine.createFinding
createFinding(keep, params) ==
  LET c0 == params.baseConfidence
      c1 == IF isInKeepList(keep, params.target) THEN c0 - 20 ELSE c0
      c2 == IF Len(params.evidence) > 1 THEN c1 + 15 ELSE c1
      confidence == Max(0, Min(100, c2))
  IN [ type |-> params.type,
       target |-> params.target.text,
       confidence |-> confidence,
       category |-> CategoryOf(confidence),
       evidence |-> params.evidence ]

\* Evidence of one tool about one target
Evidence(tool, text) == [tool |-> tool, output |-> text]

\* the findings a tool's loop pushes: one per reported item that is not excluded
Collect(items, Excluded(_), Make(_)) ==
  LET kept == SelectSeq(items, LAMBDA i : ~Excluded(i))
  IN [k \in 1..Len(kept) |-> Make(kept[k])]

\* CodebaseAuditEngine.handleToolError, logging the error without recording it
MutHandleToolError(errors, tool) == errors

\* CodebaseAuditEngine.handleToolError
handleToolError(errors, tool) == Append(errors, [tool |-> tool, message |-> "failed"])

\* what a tool run leaves: the tool is named in toolsUsed before the try block,
\* then either the catch block records the error or the findings are pushed
ToolRun(st, tool, threw, found) ==
  IF threw
  THEN [st EXCEPT !.toolsUsed = Append(@, tool), !.errors = handleToolError(@, tool)]
  ELSE [st EXCEPT !.toolsUsed = Append(@, tool), !.findings = @ \o found]

\* CodebaseAuditEngine.runDepcheck
runDepcheck(cfg, keep, st, out) ==
  LET deps == Collect(out.dependencies, LAMBDA d : isPackageExcluded(cfg, d),
                LAMBDA d : createFinding(keep,
                   [ type |-> "unused-dependency", target |-> Target(d.name, {d.name}),
                     evidence |-> <<Evidence("depcheck", d.name)>>,
                     baseConfidence |-> 85 ]))
      devDeps == Collect(out.devDependencies, LAMBDA d : isPackageExcluded(cfg, d),
                LAMBDA d : createFinding(keep,
                   [ type |-> "unused-dependency", target |-> Target(d.name, {d.name}),
                     evidence |-> <<Evidence("depcheck", d.name)>>,
                     baseConfidence |-> 80 ]))
  IN ToolRun(st, "depcheck", out.threw, deps \o devDeps)

\* the target ts-prune reports for an export: `${filePath}:${lineNum}`
ExportTarget(e) == Target(e.text, {e.file.path})

\* CodebaseAuditEngine.runTsPrune
runTsPrune(cfg, keep, st, out) ==
  ToolRun(st, "ts-prune", out.threw,
    Collect(out.exports, LAMBDA e : isPathExcluded(cfg, e.file),
      LAMBDA e : createFinding(keep,
         [ type |-> "unused-export", target |-> ExportTarget(e),
           evidence |-> <<Evidence("ts-prune", ExportTarget(e).text)>>,
           baseConfidence |-> 75 ])))

\* CodebaseAuditEngine.runUnimported
runUnimported(cfg, keep, st, out) ==
  ToolRun(st, "unimported", out.threw,
    Collect(out.files, LAMBDA f : isPathExcluded(cfg, f),
      LAMBDA f : createFinding(keep,
         [ type |-> "unused-file", target |-> Target(f.path, {f.path}),
           evidence |-> <<Evidence("unimported", f.path)>>,
           baseConfidence |-> 70 ])))

\* the target of a duplicate: `${firstFile.name} <-> ${secondFile.name}`
DuplicateTarget(d) == Target(d.text, {d.firstFile.path, d.secondFile.path})

\* CodebaseAuditEngine.runJscpd
runJscpd(cfg, keep, st, out) ==
  ToolRun(st, "jscpd", out.threw,
    Collect(out.duplicates, LAMBDA d : FALSE,
      LAMBDA d : createFinding(keep,
         [ type |-> "duplicate-code", target |-> DuplicateTarget(d),
           evidence |-> <<Evidence("jscpd", DuplicateTarget(d).text)>>,
           baseConfidence |-> 85 ])))

\* the target of a cycle: cycle.join(' -> ')
CycleTarget(c) == Target(c.text, {c.cycle[k].path : k \in 1..Len(c.cycle)})

\* CodebaseAuditEngine.runMadge
runMadge(cfg, keep, st, out) ==
  ToolRun(st, "madge", out.threw,
    Collect(out.circular, LAMBDA c : FALSE,
      LAMBDA c : createFinding(keep,
         [ type |-> "circular-dependency", target |-> CycleTarget(c),
           evidence |-> <<Evidence("madge", CycleTarget(c).text)>>,
           baseConfidence |-> 90 ])))

\* CodebaseAuditEngine.checkStaleFiles: the files find reports as not modified in
\* staleFileDays; a failure is logged and nothing is recorded; the evidence
\* names the tool 'madge'
checkStaleFiles(cfg, keep, st, out) ==
  IF out.threw
  THEN st
  ELSE [st EXCEPT !.findings = @ \o
          Collect(out.files, LAMBDA f : isPathExcluded(cfg, f),
            LAMBDA f : createFinding(keep,
               [ type |-> "stale-file", target |-> Target(f.path, {f.path}),
                 evidence |-> <<Evidence("madge", f.path)>>,
                 baseConfidence |-> 40 ]))]

\* CodebaseAuditEngine.generateSummary
auditSummary(fs) ==
  [ totalFindings |-> Len(fs),
    highConfidence |-> CountSeq(fs, LAMBDA f : f.category = "high"),
    mediumConfidence |-> CountSeq(fs, LAMBDA f : f.category = "medium"),
    lowConfidence |-> CountSeq(fs, LAMBDA f : f.category = "low"),
    unusedDependencies |-> CountSeq(fs, LAMBDA f : f.type = "unused-dependency"),
    unusedFiles |-> CountSeq(fs, LAMBDA f : f.type = "unused-file"),
    unusedExports |-> CountSeq(fs, LAMBDA f : f.type = "unused-export"),
    duplicateBlocks |-> CountSeq(fs, LAMBDA f : f.type = "duplicate-code"),
    circularDependencies |-> CountSeq(fs, LAMBDA f : f.type = "circular-dependency"),
    staleFiles |-> CountSeq(fs, LAMBDA f : f.type = "stale-file") ]

\* CodebaseAuditEngine.audit: the filter by confidence and the report
auditReturn(cfg, st) ==
  LET fs == SelectSeq(st.findings,
                      LAMBDA f : f.confidence >= cfg.thresholds.minConfidenceToReport)
  IN [ returned |-> TRUE,
       summary |-> auditSummary(fs),
       findings |-> fs,
       toolsUsed |-> st.toolsUsed,
       errors |-> st.errors ]

NoAuditReport ==
  [ returned |-> FALSE, summary |-> auditSummary(<<>>), findings |-> <<>>,
    toolsUsed |-> <<>>, errors |-> <<>> ]

\* the action of generateCleanupPlan for one finding, if it has one
ActionTypeOf(type) ==
  CASE type = "unused-dependency" -> "remove-dependency"
    [] type = "unused-file" -> "archive-file"
    [] type = "unused-export" -> "remove-export"
    [] OTHER -> "none"

\* AuditReportGenerator.generateCleanupPlan: the actions and the lines of the
\* script that name a target
generateCleanupPlan(rep) ==
  LET highFindings == SelectSeq(rep.findings, LAMBDA f : f.category = "high")
      withAction == SelectSeq(highFindings, LAMBDA f : ActionTypeOf(f.type) # "none")
      actions == [k \in 1..Len(withAction) |->
                    [type |-> ActionTypeOf(withAction[k].type),
                     target |-> withAction[k].target]]
  IN [ generated |-> TRUE,
       actions |-> actions,
       script |-> [k \in 1..Len(actions) |-> actions[k].target] ]

NoCleanupPlan == [generated |-> FALSE, actions |-> <<>>, script |-> <<>>]

\* CodebaseAuditEngine.constructor
AuditConstructor(userConfig, keepFile) ==
  [ config |-> mergeConfig(userConfig),
    keepList |-> keepFile,
    findings |-> <<>>,
    errors |-> <<>>,
    toolsUsed |-> <<>> ]

\* what the tools print for the audited project
OldExport == [file |-> OldModule, line |-> 10, text |-> "src/legacy/old-module.ts:10"]
Duplicate ==
  [ firstFile |-> OldModule, secondFile |-> Utils,
    text |-> "src/legacy/old-module.ts <-> src/utils.ts" ]
Cycle == [cycle |-> <<OldModule, Utils>>, text |-> "src/legacy/old-module.ts -> src/utils.ts"]

Threw == [ran |-> TRUE, threw |-> TRUE]
Ran == [ran |-> TRUE, threw |-> FALSE]
NotRun == [ran |-> FALSE, threw |-> FALSE]

DepcheckOutputs ==
  {Threw @@ [dependencies |-> <<>>, devDependencies |-> <<>>]} \cup
  { Ran @@ [dependencies |-> d, devDependencies |-> dd] :
      d \in {<<>>, <<Lodash>>, <<Lodash, TypesNode>>}, dd \in {<<>>, <<Jest>>} }
TsPruneOutputs ==
  {Threw @@ [exports |-> <<>>]} \cup {Ran @@ [exports |-> e] : e \in {<<>>, <<OldExport>>}}
UnimportedOutputs ==
  {Threw @@ [files |-> <<>>]} \cup
  {Ran @@ [files |-> f] : f \in {<<>>, <<OldModule>>, <<OldModule, OldTest>>}}
JscpdOutputs ==
  {Threw @@ [duplicates |-> <<>>]} \cup
  {Ran @@ [duplicates |-> d] : d \in {<<>>, <<Duplicate>>}}
MadgeOutputs ==
  {Threw @@ [circular |-> <<>>]} \cup {Ran @@ [circular |-> c] : c \in {<<>>, <<Cycle>>}}
StaleOutputs ==
  {Threw @@ [files |-> <<>>]} \cup
  {Ran @@ [files |-> f] : f \in {<<>>, <<OldModule>>, <<OldModule, OldTest>>}}

\* no audit engine has been constructed
NoAuditEngine == AuditConstructor(Undefined, EmptyKeepList)
NoToolOutputs == [t \in SeqToSet(AuditTools) \cup {"stale"} |-> NotRun]

----------------------------------------------------------------------------
(* The SDK guardrails: src/core/SDKGuardrailsEngine.ts                         *)
(*                                                                            *)
(* A file of the project is kept as the violations scanFile pushes for it     *)
(* (before the severity filter); the contents of a configuration file are     *)
(* kept as the name of the project they describe.                             *)

\* the configuration files validate() may look at: the path given as
\* options.configPath and the three standard locations, in their order
StandardPaths == <<"stdJson", "stdMd", "rootMd">>

\* the extension of each path
ExtOf ==
  [ stdJson |-> "json", stdMd |-> "md", rootMd |-> "md",
    customJson |-> "json", customYaml |-> "yaml" ]

\* SDKGuardrailsEngine.loadConfig: the configuration, or the error thrown
loadConfig(disk, configPath) ==
  IF configPath \notin disk
  THEN [thrown |-> TRUE, message |-> "Guardrails config not found", config |-> "null"]
  ELSE IF ExtOf[configPath] \in {"json", "md"}
       THEN [thrown |-> FALSE, message |-> "", config |-> configPath]
       ELSE [thrown |-> TRUE, message |-> "Unsupported config format", config |-> "null"]

\* the violations scanFile pushes
Violation(type, severity) == [type |-> type, severity |-> severity]
UnverifiedField == Violation("unverified_field", "critical")
Assumption == Violation("assumption", "medium")
KnownMistake == Violation("assumption", "high")

severityOrder == <<"critical", "high", "medium", "low", "info">>

IndexOf(s, x) == IF \E k \in 1..Len(s) : s[k] = x
                 THEN CHOOSE k \in 1..Len(s) : s[k] = x /\ \A j \in 1..(k - 1) : s[j] # x
                 ELSE 0

\* SDKGuardrailsEngine.scanFile: the filter by options.severityThreshold
scanFile(file, options) ==
  IF options.severityThreshold # "none"
  THEN LET thresholdIndex == IndexOf(severityOrder, options.severityThreshold)
       IN SelectSeq(file, LAMBDA v : IndexOf(severityOrder, v.severity) <= thresholdIndex)
  ELSE file

\* the violations of all files, in the order the files are scanned
RECURSIVE ScanAll(_, _)
ScanAll(files, options) ==
  IF files = <<>> THEN <<>>
  ELSE scanFile(Head(files), options) \o ScanAll(Tail(files), options)

\* SDKGuardrailsEngine.createResult; the score is computed in halves
createResult(violations, filesScanned, options) ==
  LET count(sev) == CountSeq(violations, LAMBDA v : v.severity = sev)
      twice == 200 - (count("critical") * 50 + count("high") * 20 + count("medium") * 10
                      + count("low") * 4 + count("info"))
  IN [ thrown |-> FALSE,
       status |-> IF count("critical") > 0 \/ (options.strictMode /\ Len(violations) > 0)
                  THEN "failed"
                  ELSE IF count("high") > 0 \/ (options.failOnWarning /\ Len(violations) > 0)
                       THEN "warning"
                       ELSE "passed",
       score |-> (Max(0, twice) + 1) \div 2,
       filesScanned |-> filesScanned,
       violationsFound |-> Len(violations),
       violations |-> violations ]

\* SDKGuardrailsEngine.createErrorResult
createErrorResult ==
  [ thrown |-> FALSE, status |-> "error", score |-> 0, filesScanned |-> 0,
    violationsFound |-> 0, violations |-> <<>> ]

\* validate() rejected with an error instead of returning a result
Thrown ==
  [ thrown |-> TRUE, status |-> "none", score |-> 0, filesScanned |-> 0,
    violationsFound |-> 0, violations |-> <<>> ]

NoSdkResult ==
  [ thrown |-> FALSE, status |-> "none", score |-> 0, filesScanned |-> 0,
    violationsFound |-> 0, violations |-> <<>> ]

\* SDKGuardrailsEngine.validate: the configuration after the call and what the
\* call gives; loadedConfig is the engine's configuration before the call
sdkValidate(loadedConfig, disk, project, options) ==
  LET given == IF loadedConfig = "null" /\ options.configPath # "none"
               THEN loadConfig(disk, options.configPath)
               ELSE [thrown |-> FALSE, message |-> "", config |-> loadedConfig]
      found == SelectSeq(StandardPaths, LAMBDA p : p \in disk)
      loaded == IF given.config = "null" /\ found # <<>>
                THEN loadConfig(disk, Head(found)).config
                ELSE given.config
  IN IF given.thrown
     THEN [config |-> loadedConfig, result |-> Thrown]
     ELSE IF loaded = "null"
          THEN [config |-> loaded, result |-> createErrorResult]
          ELSE [config |-> loaded,
                result |-> createResult(ScanAll(project, options), Len(project), options)]

\* the options validate() is called with
SdkOptions ==
  [ configPath : {"none", "customJson", "customYaml"},
    severityThreshold : {"none", "high"},
    failOnWarning : BOOLEAN,
    strictMode : BOOLEAN ]

NoSdkOptions ==
  [configPath |-> "none", severityThreshold |-> "none", failOnWarning |-> FALSE,
   strictMode |-> FALSE]

\* the configuration files that exist
SdkDisks == SUBSET {"stdJson", "rootMd", "customJson", "customYaml"}

\* the files of the project that are scanned
SdkProjects ==
  { <<>>, << <<>> >>, << <<Assumption>> >>, << <<KnownMistake>>, <<Assumption>> >>,
    << <<UnverifiedField, Assumption>> >> }

\* the variables of the audit and of the SDK guardrails
auditVars == <<auditEngine, toolOutputs, auditReport, cleanupPlan>>
sdkVars == <<sdkDisk, sdkProject, sdkConfig, sdkOpts, sdkResult>>

\* no audit is run
IdleAudit ==
  /\ auditEngine = NoAuditEngine
  /\ toolOutputs = NoToolOutputs
  /\ auditReport = NoAuditReport
  /\ cleanupPlan = NoCleanupPlan

\* the SDK guardrails are not used
IdleSdk ==
  /\ sdkDisk = {}
  /\ sdkProject = <<>>
  /\ sdkConfig = "null"
  /\ sdkOpts = NoSdkOptions
  /\ sdkResult = NoSdkResult

----------------------------------------------------------------------------
(* validate(): src/core/ValidationEngine.ts *)

engineVars == <<config, toRun, results, report>>
diskVars == <<learning, reportsDir, archiveDir>>
cmdVars == <<mode, opts, local, configFile, exitCode, lastFix, now>>

\* the validatorNames arguments tried (the empty list stands for "not given")
Selections ==
  { <<>>, <<"typescript">>, <<"biome", "jest_unit">>,
    <<"docker_build_check", "eslint">>, <<"nonexistent">> }

Budget == IF mode = "cli" THEN MaxDeviatingCli ELSE MaxDeviating

Deviating(rs) ==
  CountSeq(rs, LAMBDA r : ~(r.status = "skipped" \/ (r.status = "passed" /\ r.issues = <<>>)))

\* validate(), up to the loop: the validators to run are selected
EnterValidate(cfg, validatorNames) ==
  /\ toRun' = getValidatorsToRun(cfg, validatorNames)
  /\ results' = <<>>
  /\ pc' = "running"

\* programmatic call of validate(validatorNames) on a constructed engine
BeginValidate ==
  /\ mode = "engine"
  /\ pc = "constructed"
  /\ \E validatorNames \in Selections : EnterValidate(config, validatorNames)
  /\ UNCHANGED <<config, report, diskVars, cmdVars>>
  /\ UNCHANGED <<auditVars, sdkVars>>

\* one iteration of the loop of validate() on a disabled validator
SkipValidator ==
  /\ pc = "running"
  /\ Len(results) < Len(toRun)
  /\ LET name == toRun[Len(results) + 1]
         cfg == config.validators[name]
     IN /\ ~cfg.enabled
        /\ results' = Append(results, createSkippedResult(name, cfg))
  /\ UNCHANGED <<pc, config, toRun, report, diskVars, cmdVars>>
  /\ UNCHANGED <<auditVars, sdkVars>>

\* one iteration of the loop of validate() on an enabled validator
RunValidator ==
  /\ pc = "running"
  /\ Len(results) < Len(toRun)
  /\ LET name == toRun[Len(results) + 1]
         cfg == config.validators[name]
     IN /\ cfg.enabled
        /\ \E outcome \in Outcomes :
             /\ outcome = CleanPass \/ Deviating(results) < Budget
             /\ results' = Append(results, runValidator(name, cfg, outcome))
  /\ UNCHANGED <<pc, config, toRun, report, diskVars, cmdVars>>
  /\ UNCHANGED <<auditVars, sdkVars>>

\* validate() after the loop: consensus, summary, score, status, the report
FinishValidate ==
  /\ pc = "running"
  /\ Len(results) = Len(toRun)
  /\ report' = MakeReport(config, results)
  /\ pc' = "validated"
  /\ UNCHANGED <<config, toRun, results, diskVars, cmdVars>>
  /\ UNCHANGED <<auditVars, sdkVars>>

NotExited == -1

NoOpts == [all |-> FALSE, validator |-> <<>>, layer |-> "code", ci |-> FALSE, fix |-> FALSE,
           confirm |-> FALSE, dryRun |-> FALSE]

NoLocal == [exitCode |-> 0, recommendation |-> "none", thrown |-> FALSE]

\* what every run starts from, apart from its entry point: a project whose
\* .validation directory holds no learning data and no report yet
Blank ==
  /\ toRun = <<>>
  /\ results = <<>>
  /\ report = NoReport
  /\ local = NoLocal
  /\ exitCode = NotExited
  /\ learning = EmptyLearning
  /\ lastFix = [applied |-> 0, succeeded |-> 0]
  /\ reportsDir = {}
  /\ archiveDir = {}
  /\ now = 0

\* a ValidationEngine constructed by a program that uses the package
InitEngine ==
  /\ mode = "engine"
  /\ pc = "constructed"
  /\ opts = NoOpts
  /\ configFile = Undefined
  /\ \E partial \in PartialConfigs : config = Constructor(partial)
  /\ Blank
  /\ IdleAudit
  /\ IdleSdk

NextEngine == BeginValidate \/ SkipValidator \/ RunValidator \/ FinishValidate

SpecEngine == InitEngine /\ [][NextEngine]_vars

----------------------------------------------------------------------------
(* The validate command: src/cli.ts *)

\* .validation/config.json as the init command writes it (the sections the
\* engines have a counterpart for)
InitConfigFile ==
  [ validators |->
      [ typescript            |-> [enabled |-> TRUE, weight |-> 96],
        eslint                |-> [enabled |-> TRUE, weight |-> 92],
        jest_unit             |-> [enabled |-> TRUE, weight |-> 93],
        zod_schema_validation |-> [enabled |-> TRUE, weight |-> 99],
        security_scan         |-> [enabled |-> TRUE, weight |-> 88] ],
    consensus |-> [ minValidatorsToFlag |-> 2, singleValidatorThreshold |-> 95 ],
    cleanup |-> [ maxActiveSize |-> 512000, retentionDays |-> 30, archiveAfterDays |-> 7 ] ]

\* the file after the user has edited it
EditedConfigFile ==
  [ InitConfigFile EXCEPT !.validators.eslint.enabled = FALSE,
                          !.consensus.minValidatorsToFlag = 3,
                          !.cleanup.retentionDays = 365 ]

ConfigFiles == {InitConfigFile, EditedConfigFile}

\* the option values of the validate command that are tried
ValidateOpts ==
  [ all : BOOLEAN,
    validator : { <<>>, <<"docker_build_check", "eslint">>, <<"nonexistent">> },
    layer : {"code", "skeptical", "all"},
    ci : BOOLEAN,
    fix : BOOLEAN,
    confirm : {FALSE},
    dryRun : {FALSE} ]

Recommendations == {"proceed", "proceed-with-caution", "stop-and-fix"}

\* a name no file of the two directories has (report names carry the time of
\* their creation to the millisecond)
FreshName(reports, archive) ==
  CHOOSE n \in 1..(Cardinality(reports \cup archive) + 1) :
    \A f \in reports \cup archive : f.name # n

\* saveReport
saveReport(reports, archive, today) ==
  PutFile(reports, File(FreshName(reports, archive), FALSE, today, today))

\* layer code or all: the engine is constructed without a configuration and
\* validate() is entered with the names of --validator
CliValidate ==
  /\ mode = "cli"
  /\ pc = "cli_validate"
  /\ opts.layer \in {"code", "all"}
  /\ config' = Constructor([validators |-> Undefined, consensus |-> Undefined])
  /\ EnterValidate(config', opts.validator)
  /\ UNCHANGED <<report, diskVars, cmdVars>>
  /\ UNCHANGED <<auditVars, sdkVars>>

\* layer skeptical: the code layer is left out
CliNoValidate ==
  /\ mode = "cli"
  /\ pc = "cli_validate"
  /\ opts.layer = "skeptical"
  /\ pc' = "cli_skeptical"
  /\ UNCHANGED <<engineVars, diskVars, cmdVars>>
  /\ UNCHANGED <<auditVars, sdkVars>>

\* the results are recorded in the learning loop and the exit code is set
CliRecord ==
  /\ mode = "cli"
  /\ pc = "validated"
  /\ learning' = recordResults(learning, report.results, now)
  /\ local' = [local EXCEPT !.exitCode = IF report.status = "failed" THEN 1 ELSE @]
  /\ pc' = "cli_recorded"
  /\ UNCHANGED <<engineVars, reportsDir, archiveDir, mode, opts, configFile, exitCode,
                 lastFix, now>>
  /\ UNCHANGED <<auditVars, sdkVars>>

\* the report is saved, and the auto-fixes are applied when --fix is given and
\* the validation failed
CliSaveAndFix ==
  /\ mode = "cli"
  /\ pc = "cli_recorded"
  /\ reportsDir' = saveReport(reportsDir, archiveDir, now)
  /\ IF opts.fix /\ report.status = "failed"
     THEN LET fix == applyAutoFixes(learning)
          IN /\ learning' = fix.data
             /\ lastFix' = [applied |-> fix.applied, succeeded |-> fix.succeeded]
     ELSE UNCHANGED <<learning, lastFix>>
  /\ pc' = "cli_skeptical"
  /\ UNCHANGED <<engineVars, archiveDir, mode, opts, local, configFile, exitCode, now>>
  /\ UNCHANGED <<auditVars, sdkVars>>

\* layer skeptical or all: the analysis gives its recommendation, the exit code
\* is set and the report is saved
CliSkeptical ==
  /\ mode = "cli"
  /\ pc = "cli_skeptical"
  /\ opts.layer \in {"skeptical", "all"}
  /\ \E recommendation \in Recommendations :
       local' = [local EXCEPT !.recommendation = recommendation,
                              !.exitCode = IF recommendation = "stop-and-fix" THEN 1 ELSE @]
  /\ reportsDir' = saveReport(reportsDir, archiveDir, now)
  /\ pc' = "cli_cleanup"
  /\ UNCHANGED <<engineVars, learning, archiveDir, mode, opts, configFile, exitCode,
                 lastFix, now>>
  /\ UNCHANGED <<auditVars, sdkVars>>

CliNoSkeptical ==
  /\ mode = "cli"
  /\ pc = "cli_skeptical"
  /\ opts.layer = "code"
  /\ pc' = "cli_cleanup"
  /\ UNCHANGED <<engineVars, diskVars, cmdVars>>
  /\ UNCHANGED <<auditVars, sdkVars>>

\* the cleanup runs when the context has grown over its limits
CliAutoCleanup ==
  /\ mode = "cli"
  /\ pc = "cli_cleanup"
  /\ \E metrics \in MetricsSamples :
       LET cfg == CleanupConstructor(Undefined)
           done == cleanup(cfg, learning, <<reportsDir, archiveDir>>, now)
       IN IF shouldCleanup(cfg, metrics)
          THEN /\ learning' = done.data
               /\ reportsDir' = done.reports
               /\ archiveDir' = done.archive
          ELSE UNCHANGED diskVars
  /\ pc' = "cli_end"
  /\ UNCHANGED <<engineVars, cmdVars>>
  /\ UNCHANGED <<auditVars, sdkVars>>

\* something in the try block throws (a file cannot be read or written): the
\* catch clause sets the exit code
CliThrow ==
  /\ mode = "cli"
  /\ pc \in {"validated", "cli_recorded", "cli_skeptical", "cli_cleanup"}
  /\ local' = [local EXCEPT !.exitCode = 1, !.thrown = TRUE]
  /\ pc' = "cli_end"
  /\ UNCHANGED <<engineVars, diskVars, mode, opts, configFile, exitCode, lastFix, now>>
  /\ UNCHANGED <<auditVars, sdkVars>>

\* with --ci the process exits with the exit code of the action; without it the
\* process ends by itself, with 0
CliExit ==
  /\ mode = "cli"
  /\ pc = "cli_end"
  /\ exitCode' = IF opts.ci THEN local.exitCode ELSE 0
  /\ pc' = "exited"
  /\ UNCHANGED <<engineVars, diskVars, mode, opts, local, configFile, lastFix, now>>
  /\ UNCHANGED <<auditVars, sdkVars>>

\* the validate command is started in a project
InitCli ==
  /\ mode = "cli"
  /\ pc = "cli_validate"
  /\ opts \in ValidateOpts
  /\ configFile \in ConfigFiles
  /\ config = DEFAULT_VALIDATORS
  /\ Blank
  /\ IdleAudit
  /\ IdleSdk

NextCli ==
  \/ CliValidate \/ CliNoValidate
  \/ SkipValidator \/ RunValidator \/ FinishValidate
  \/ CliRecord \/ CliSaveAndFix \/ CliSkeptical \/ CliNoSkeptical
  \/ CliAutoCleanup \/ CliThrow \/ CliExit

SpecCli == InitCli /\ [][NextCli]_vars

----------------------------------------------------------------------------
(* The learning loop used over time: recordResults() and applyAutoFixes()     *)
(* are called on a LearningLoop constructed for the call, days pass, and the   *)
(* cleanup command is run in between.                                          *)

\* the same issue as IssueA about another identifier, on another line
IssueA2 == [IssueA EXCEPT !.message.ident = "bar", !.line = 7]

\* the results handed to recordResults()
LearnInputs ==
  LET eslint == DEFAULT_VALIDATORS.validators["eslint"]
      typescript == DEFAULT_VALIDATORS.validators["typescript"]
  IN { << runValidator("eslint", eslint, [kind |-> "errOut", issues |-> <<IssueA>>]) >>,
       << runValidator("eslint", eslint, [kind |-> "errOut", issues |-> <<IssueA2>>]) >>,
       << runValidator("typescript", typescript, [kind |-> "ok", issues |-> <<IssueB>>]),
          runValidator("eslint", eslint, [kind |-> "errOut", issues |-> <<IssueB>>]) >> }

\* the days on which something is done while the learning loop is exercised
LearnDays == {0, 31}

\* the option values of the cleanup command that are tried
CleanupOpts ==
  [ all : {FALSE}, validator : {<<>>}, layer : {"code"}, ci : {FALSE}, fix : {FALSE},
    confirm : IF mode = "learn" THEN {TRUE} ELSE BOOLEAN,
    dryRun : IF mode = "learn" THEN {FALSE} ELSE BOOLEAN ]

\* recordResults(results) on a new LearningLoop
ApiRecordResults ==
  /\ mode \in {"learn", "cleanup"}
  /\ Len(learning.failures) < (IF mode = "learn" THEN MaxFailures ELSE MaxCleanupFailures)
  /\ \E rs \in LearnInputs : learning' = recordResults(learning, rs, now)
  /\ pc' = "recorded"
  /\ UNCHANGED <<engineVars, reportsDir, archiveDir, cmdVars>>
  /\ UNCHANGED <<auditVars, sdkVars>>

\* applyAutoFixes() on a new LearningLoop
ApiApplyAutoFixes ==
  /\ mode = "learn"
  /\ LET fix == applyAutoFixes(learning)
     IN /\ learning' = fix.data
        /\ lastFix' = [applied |-> fix.applied, succeeded |-> fix.succeeded]
  /\ pc' = "fixed"
  /\ UNCHANGED <<engineVars, reportsDir, archiveDir, mode, opts, local, configFile,
                 exitCode, now>>
  /\ UNCHANGED <<auditVars, sdkVars>>

\* the cleanup command: with --dry-run or without --confirm it announces a
\* preview, and in both branches it calls cleanup()
CleanupCommand ==
  /\ mode \in {"learn", "cleanup"}
  /\ \E o \in CleanupOpts :
       /\ opts' = o
       /\ LET cfg == CleanupConstructor(Undefined)
              done == cleanup(cfg, learning, <<reportsDir, archiveDir>>, now)
          IN IF o.dryRun \/ ~o.confirm
             THEN /\ learning' = done.data
                  /\ reportsDir' = done.reports
                  /\ archiveDir' = done.archive
             ELSE /\ learning' = done.data
                  /\ reportsDir' = done.reports
                  /\ archiveDir' = done.archive
  /\ pc' = "cleaned"
  /\ UNCHANGED <<engineVars, mode, local, configFile, exitCode, lastFix, now>>
  /\ UNCHANGED <<auditVars, sdkVars>>

\* days pass
LearnTick ==
  /\ mode = "learn"
  /\ \E d \in LearnDays : d > now /\ now' = d
  /\ UNCHANGED <<pc, engineVars, diskVars, mode, opts, local, configFile, exitCode, lastFix>>
  /\ UNCHANGED <<auditVars, sdkVars>>

InitLearn ==
  /\ mode = "learn"
  /\ pc = "idle"
  /\ opts = NoOpts
  /\ configFile = InitConfigFile
  /\ config = DEFAULT_VALIDATORS
  /\ Blank
  /\ IdleAudit
  /\ IdleSdk

NextLearn == ApiRecordResults \/ ApiApplyAutoFixes \/ CleanupCommand \/ LearnTick

SpecLearn == InitLearn /\ [][NextLearn]_vars

----------------------------------------------------------------------------
(* The cleanup command used over time: reports are saved by the learn         *)
(* command, days pass, and the cleanup command is run with its options.        *)

\* the days on which something is done while the cleanup command is exercised
CleanupDays == {0, 8, 15, 98, 106}

\* the learn command: the report is generated, with --fix the auto-fixes are
\* applied, and the report is saved
LearnCommand ==
  /\ mode = "cleanup"
  /\ Cardinality(reportsDir \cup archiveDir) < MaxReports
  /\ \E fix \in BOOLEAN :
       /\ opts' = [NoOpts EXCEPT !.fix = fix]
       /\ IF fix
          THEN LET done == applyAutoFixes(learning)
               IN /\ learning' = done.data
                  /\ lastFix' = [applied |-> done.applied, succeeded |-> done.succeeded]
          ELSE UNCHANGED <<learning, lastFix>>
  /\ reportsDir' = saveReport(reportsDir, archiveDir, now)
  /\ pc' = "learned"
  /\ UNCHANGED <<engineVars, archiveDir, mode, local, configFile, exitCode, now>>
  /\ UNCHANGED <<auditVars, sdkVars>>

\* days pass
CleanupTick ==
  /\ mode = "cleanup"
  /\ \E d \in CleanupDays : d > now /\ now' = d
  /\ UNCHANGED <<pc, engineVars, diskVars, mode, opts, local, configFile, exitCode, lastFix>>
  /\ UNCHANGED <<auditVars, sdkVars>>

InitCleanup ==
  /\ mode = "cleanup"
  /\ pc = "idle"
  /\ opts = NoOpts
  /\ configFile = InitConfigFile
  /\ config = DEFAULT_VALIDATORS
  /\ Blank
  /\ IdleAudit
  /\ IdleSdk

NextCleanup == ApiRecordResults \/ LearnCommand \/ CleanupCommand \/ CleanupTick

SpecCleanup == InitCleanup /\ [][NextCleanup]_vars

----------------------------------------------------------------------------
(* audit() on a CodebaseAuditEngine, then the cleanup plan of its report      *)

\* the engine's findings, errors and toolsUsed after a tool step
AfterTool(st) ==
  [auditEngine EXCEPT !.findings = st.findings, !.errors = st.errors,
                      !.toolsUsed = st.toolsUsed]

\* one tool of audit(): it runs if it is enabled, on what the tool prints
ToolStep(tool, next, outputs, Run(_, _, _, _)) ==
  /\ mode = "audit"
  /\ pc = tool
  /\ IF auditEngine.config.tools[tool].enabled
     THEN \E out \in outputs :
            /\ auditEngine' = AfterTool(Run(auditEngine.config, auditEngine.keepList,
                                            auditEngine, out))
            /\ toolOutputs' = [toolOutputs EXCEPT ![tool] = out]
     ELSE UNCHANGED <<auditEngine, toolOutputs>>
  /\ pc' = next
  /\ UNCHANGED <<engineVars, diskVars, cmdVars, auditReport, cleanupPlan, sdkVars>>

\* audit(): the fields are reset
AuditBegin ==
  /\ mode = "audit"
  /\ pc = "constructed"
  /\ auditEngine' = [auditEngine EXCEPT !.findings = <<>>, !.errors = <<>>,
                                        !.toolsUsed = <<>>]
  /\ pc' = "depcheck"
  /\ UNCHANGED <<engineVars, diskVars, cmdVars, toolOutputs, auditReport, cleanupPlan,
                 sdkVars>>

AuditDepcheck == ToolStep("depcheck", "ts-prune", DepcheckOutputs, runDepcheck)
AuditTsPrune == ToolStep("ts-prune", "unimported", TsPruneOutputs, runTsPrune)
AuditUnimported == ToolStep("unimported", "jscpd", UnimportedOutputs, runUnimported)
AuditJscpd == ToolStep("jscpd", "madge", JscpdOutputs, runJscpd)
AuditMadge == ToolStep("madge", "stale", MadgeOutputs, runMadge)

\* audit(): the stale-file check, the filter by confidence and the report
AuditFinish ==
  /\ mode = "audit"
  /\ pc = "stale"
  /\ \E out \in StaleOutputs :
       LET st == checkStaleFiles(auditEngine.config, auditEngine.keepList, auditEngine, out)
           rep == auditReturn(auditEngine.config, st)
       IN /\ auditEngine' = [auditEngine EXCEPT !.findings = rep.findings]
          /\ toolOutputs' = [toolOutputs EXCEPT !["stale"] = out]
          /\ auditReport' = rep
  /\ pc' = "audited"
  /\ UNCHANGED <<engineVars, diskVars, cmdVars, cleanupPlan, sdkVars>>

\* new AuditReportGenerator(report).generateCleanupPlan()
GeneratePlan ==
  /\ mode = "audit"
  /\ pc = "audited"
  /\ cleanupPlan' = generateCleanupPlan(auditReport)
  /\ pc' = "planned"
  /\ UNCHANGED <<engineVars, diskVars, cmdVars, auditEngine, toolOutputs, auditReport,
                 sdkVars>>

InitAudit ==
  /\ mode = "audit"
  /\ pc = "constructed"
  /\ opts = NoOpts
  /\ configFile = InitConfigFile
  /\ config = DEFAULT_VALIDATORS
  /\ Blank
  /\ \E userConfig \in AuditUserConfigs, keepFile \in KeepLists :
       auditEngine = AuditConstructor(userConfig, keepFile)
  /\ toolOutputs = NoToolOutputs
  /\ auditReport = NoAuditReport
  /\ cleanupPlan = NoCleanupPlan
  /\ IdleSdk

NextAudit ==
  \/ AuditBegin
  \/ AuditDepcheck
  \/ AuditTsPrune
  \/ AuditUnimported
  \/ AuditJscpd
  \/ AuditMadge
  \/ AuditFinish
  \/ GeneratePlan

SpecAudit == InitAudit /\ [][NextAudit]_vars

----------------------------------------------------------------------------
(* validate() on an SDKGuardrailsEngine: the engine is used for several calls *)
(* and keeps the configuration it has loaded                                  *)

\* SDKGuardrailsEngine.validate(projectPath, options)
SdkValidate ==
  /\ mode = "sdk"
  /\ \E options \in SdkOptions :
       LET done == sdkValidate(sdkConfig, sdkDisk, sdkProject, options)
       IN /\ sdkOpts' = options
          /\ sdkConfig' = done.config
          /\ sdkResult' = done.result
  /\ pc' = "validated"
  /\ UNCHANGED <<engineVars, diskVars, cmdVars, auditVars, sdkDisk, sdkProject>>

\* a configuration file is written to one of the locations between two calls
SdkWriteConfig ==
  /\ mode = "sdk"
  /\ \E p \in {"stdJson", "rootMd", "customJson", "customYaml"} \ sdkDisk :
       sdkDisk' = sdkDisk \cup {p}
  /\ pc' = "edited"
  /\ UNCHANGED <<engineVars, diskVars, cmdVars, auditVars, sdkProject, sdkConfig, sdkOpts,
                 sdkResult>>

InitSdk ==
  /\ mode = "sdk"
  /\ pc = "constructed"
  /\ opts = NoOpts
  /\ configFile = InitConfigFile
  /\ config = DEFAULT_VALIDATORS
  /\ Blank
  /\ IdleAudit
  /\ sdkDisk \in SdkDisks
  /\ sdkProject \in SdkProjects
  /\ sdkConfig = "null"
  /\ sdkOpts = NoSdkOptions
  /\ sdkResult = NoSdkResult

NextSdk == SdkValidate \/ SdkWriteConfig

SpecSdk == InitSdk /\ [][NextSdk]_vars

----------------------------------------------------------------------------
(* Claims about the report of validate() *)

\* validate() has returned its report
Returned == report.status # "none"

\* the distinct validators that reported a consensus issue
Reporters(ci) == SeqToSet(ci.validators)

\* C1: after validate() a consensus issue is flagged exactly when at least 2
\* validators reported the same issue, or a single validator whose weight is
\* greater than 0.95 reported it.
C1_ConsensusRule ==
  Returned =>
    \A k \in 1..Len(report.consensusIssues) :
      LET ci == report.consensusIssues[k]
      IN ci.flaggedByConsensus <=>
           \/ Cardinality(Reporters(ci)) >= 2
           \/ /\ Cardinality(Reporters(ci)) = 1
              /\ \A v \in Reporters(ci) : config.validators[v].weight > 95

\* C2: every entry of report.consensusIssues is flagged by the consensus engine.
C2_OnlyFlaggedListed ==
  Returned =>
    \A k \in 1..Len(report.consensusIssues) : report.consensusIssues[k].flaggedByConsensus

\* C3: the status of the report is failed if a result of a required validator is
\* failed or a flagged consensus issue is critical, otherwise error if a result is
\* error, otherwise passed; it is never skipped.
C3_OverallStatus ==
  Returned =>
    LET rs == report.results
        cis == report.consensusIssues
        requiredFailed ==
          \E k \in 1..Len(rs) :
            rs[k].status = "failed" /\ config.validators[rs[k].validator].required
        criticalFlagged ==
          \E k \in 1..Len(cis) :
            cis[k].flaggedByConsensus /\ cis[k].issue.severity = "critical"
        someError == \E k \in 1..Len(rs) : rs[k].status = "error"
    IN /\ report.status \in {"passed", "failed", "error"}
       /\ (requiredFailed \/ criticalFlagged) => report.status = "failed"
       /\ (~requiredFailed /\ ~criticalFlagged /\ someError) => report.status = "error"
       /\ (~requiredFailed /\ ~criticalFlagged /\ ~someError) => report.status = "passed"

\* a returned report with status error although a validator that is not required
\* failed and a critical issue was reported without being flagged
C3_Witness ==
  /\ Returned
  /\ report.status = "error"
  /\ \E k \in 1..Len(report.results) : report.results[k].status = "failed"
  /\ \E k \in 1..Len(report.consensusIssues) :
       /\ ~report.consensusIssues[k].flaggedByConsensus
       /\ report.consensusIssues[k].issue.severity = "critical"

\* C4: the score of the report is an integer from 0 to 100, whatever the
\* configuration and the selection of validators.
C4_ScoreRange ==
  Returned => (~report.score.nan /\ report.score.val \in 0..100)

----------------------------------------------------------------------------
(* Claims about the validate command *)

Exited == mode = "cli" /\ pc = "exited"

\* C5: with --ci the exit code is non-zero whenever the code-layer report has
\* status failed or error, the skeptical recommendation is stop-and-fix, or an
\* exception was thrown.
C5_CiExitCode ==
  (Exited /\ opts.ci) =>
     ( ( \/ report.status \in {"failed", "error"}
         \/ local.recommendation = "stop-and-fix"
         \/ local.thrown )
       => exitCode # 0 )

\* C6: with --all every configured validator is executed: no result of the
\* report is skipped.
C6_AllRunsDisabled ==
  (mode = "cli" /\ opts.all /\ Returned) =>
     \A k \in 1..Len(report.results) : report.results[k].status # "skipped"

\* C7: the enabled flags, the weights and the consensus thresholds written in
\* .validation/config.json are the ones the validate command uses, and a
\* validator the file disables is skipped.
C7_ConfigFileUsed ==
  (mode = "cli" /\ Returned) =>
     /\ \A v \in DOMAIN configFile.validators :
          /\ config.validators[v].enabled = configFile.validators[v].enabled
          /\ config.validators[v].weight = configFile.validators[v].weight
     /\ config.consensus = configFile.consensus
     /\ \A k \in 1..Len(report.results) :
          LET v == report.results[k].validator
          IN (v \in DOMAIN configFile.validators /\ ~configFile.validators[v].enabled)
               => report.results[k].status = "skipped"

----------------------------------------------------------------------------
(* Claims about the cleanup command and the learning loop *)

\* C8: the cleanup command run with --dry-run or without --confirm leaves the
\* learning data, the reports and the archive as they were.
C8_PreviewNoChange ==
  [][ (CleanupCommand /\ (opts'.dryRun \/ ~opts'.confirm))
        => UNCHANGED <<learning, reportsDir, archiveDir>> ]_vars

StoredFailures(pattern) == SelectSeq(learning.failures, LAMBDA f : f.pattern = pattern)

\* C9: after recordResults() and after applyAutoFixes(), a pattern is ready for
\* auto-fix exactly when it has 3 or more failures of which at least 80% have
\* fixSucceeded, and its occurrences are the number of its stored failures.
C9_AutoFixCriteria ==
  (mode = "learn" /\ pc \in {"recorded", "fixed"}) =>
     \A k \in 1..Len(learning.patterns) :
        LET p == learning.patterns[k]
            fs == StoredFailures(p.pattern)
            fixed == CountSeq(fs, LAMBDA f : f.fixSucceeded)
        IN /\ p.autoFixReady <=> (Len(fs) >= 3 /\ fixed * 100 >= 80 * Len(fs))
           /\ p.occurrences = Len(fs)

\* C10: once the same pattern has been recorded three or more times by
\* recordResults(), auto-fix is available for it.
C10_AutoFixAvailable ==
  (mode = "learn" /\ pc = "recorded") =>
     \A k \in 1..Len(learning.patterns) :
        learning.patterns[k].occurrences >= 3 => learning.patterns[k].autoFixReady

\* C11: when cleanup() completes, neither the reports nor the archive hold a
\* report, compressed or not, that was written 90 or more days (deleteAfterDays)
\* ago.
C11_OldArchivesDeleted ==
  [][ CleanupCommand =>
        \A f \in reportsDir' \cup archiveDir' :
           now' - f.written < DEFAULT_CLEANUP_CONFIG.deleteAfterDays ]_vars

----------------------------------------------------------------------------
(* Claims about the audit *)

AuditReturned == mode = "audit" /\ auditReport.returned

\* the targets of the audited project, by their text
AuditTargets ==
  { Target(p.name, {p.name}) : p \in {Lodash, Jest, TypesNode} } \cup
  { Target(f.path, {f.path}) : f \in {OldModule, Utils, OldTest} } \cup
  { ExportTarget(OldExport), DuplicateTarget(Duplicate), CycleTarget(Cycle) }

\* the target text names a package or a file of .validation/keep.json
KeptTarget(text) ==
  \E t \in AuditTargets :
     /\ t.text = text
     /\ \/ text \in auditEngine.keepList.packages
        \/ t.mentions \cap auditEngine.keepList.files # {}

\* the base confidence the documentation gives for a finding
BaseConfidenceOf(f) ==
  CASE f.type = "unused-dependency" -> IF f.target = Jest.name THEN 80 ELSE 85
    [] f.type = "unused-export" -> 75
    [] f.type = "unused-file" -> 70
    [] f.type = "duplicate-code" -> 85
    [] f.type = "circular-dependency" -> 90
    [] f.type = "stale-file" -> 40

C13_KeepListRespected ==
  mode = "audit" =>
    /\ \A k \in 1..Len(auditEngine.findings) :
         LET f == auditEngine.findings[k]
         IN KeptTarget(f.target) => f.confidence = BaseConfidenceOf(f) - 20
    /\ cleanupPlan.generated =>
         /\ \A k \in 1..Len(cleanupPlan.actions) : ~KeptTarget(cleanupPlan.actions[k].target)
         /\ \A k \in 1..Len(cleanupPlan.script) : ~KeptTarget(cleanupPlan.script[k])

\* a plan with an action, generated from a report that holds the finding of a
\* kept package which the plan leaves alone
C13_Witness ==
  /\ mode = "audit"
  /\ cleanupPlan.generated
  /\ cleanupPlan.actions # <<>>
  /\ \E k \in 1..Len(auditReport.findings) :
       /\ auditReport.findings[k].type = "unused-dependency"
       /\ KeptTarget(auditReport.findings[k].target)

\* the target texts a tool reported that are not excluded
ReportedBy(tool) ==
  LET out == toolOutputs[tool]
      cfg == auditEngine.config
  IN IF ~out.ran \/ out.threw THEN {}
     ELSE CASE tool = "depcheck" ->
                 { d.name : d \in { x \in SeqToSet(out.dependencies \o out.devDependencies) :
                                      ~isPackageExcluded(cfg, x) } }
            [] tool = "ts-prune" ->
                 { e.text : e \in { x \in SeqToSet(out.exports) : ~isPathExcluded(cfg, x.file) } }
            [] tool = "jscpd" -> { d.text : d \in SeqToSet(out.duplicates) }
            [] tool = "madge" -> { c.text : c \in SeqToSet(out.circular) }
            [] OTHER ->
                 { f.path : f \in { x \in SeqToSet(out.files) : ~isPathExcluded(cfg, x) } }

\* C14: when two different tools report the same target in one audit() run, the
\* report has a finding for the target that carries the evidence of both and
\* whose confidence is 15 above the base confidence of one of them (less the 20
\* of the keep list).
C14_MultipleToolBoost ==
  AuditReturned =>
    \A text \in ReportedBy("unimported") \cap ReportedBy("stale") :
       \E k \in 1..Len(auditReport.findings) :
          LET f == auditReport.findings[k]
              reduce == IF KeptTarget(text) THEN 20 ELSE 0
          IN /\ f.target = text
             /\ Len(f.evidence) >= 2
             /\ f.confidence \in {70 + 15 - reduce, 40 + 15 - reduce}

\* C15: with the default configuration, a file the stale-file check reports
\* (not excluded, not in the keep list) is in the returned report as a
\* stale-file finding of confidence 40, and summary.staleFiles counts it.
C15_StaleFilesDetected ==
  (AuditReturned /\ auditEngine.config = DefaultAuditConfig) =>
    \A text \in ReportedBy("stale") :
       ~KeptTarget(text) =>
          /\ \E k \in 1..Len(auditReport.findings) :
               /\ auditReport.findings[k].type = "stale-file"
               /\ auditReport.findings[k].target = text
               /\ auditReport.findings[k].confidence = 40
          /\ auditReport.summary.staleFiles >= 1

\* the type of the findings of each tool
FindingTypeOf ==
  [ depcheck |-> "unused-dependency", unimported |-> "unused-file", jscpd |-> "duplicate-code",
    madge |-> "circular-dependency" ] @@ ("ts-prune" :> "unused-export")

\* the tools the configuration enables, in the order of audit()
EnabledTools == SelectSeq(AuditTools, LAMBDA t : auditEngine.config.tools[t].enabled)

\* C16: when an enabled tool throws, audit() still returns a report: report.errors
\* has exactly one entry naming that tool (and none for a tool that did not
\* throw), report.toolsUsed lists every enabled tool, every enabled tool and the
\* stale-file check have run, and the findings of the tools that did not throw
\* are in the report.
C16_ToolFailuresContained ==
  AuditReturned =>
    /\ auditReport.toolsUsed = EnabledTools
    /\ toolOutputs["stale"].ran
    /\ \A k \in 1..Len(EnabledTools) :
         LET t == EnabledTools[k]
         IN /\ toolOutputs[t].ran
            /\ CountSeq(auditReport.errors, LAMBDA e : e.tool = t)
                 = (IF toolOutputs[t].threw THEN 1 ELSE 0)
            /\ \A text \in ReportedBy(t) :
                 \E j \in 1..Len(auditReport.findings) :
                    /\ auditReport.findings[j].target = text
                    /\ auditReport.findings[j].type = FindingTypeOf[t]

\* a returned report after ts-prune threw: the finding depcheck collected before
\* and the finding madge collected after are both in it
C16_Witness ==
  /\ AuditReturned
  /\ toolOutputs["ts-prune"].threw
  /\ Len(auditReport.errors) = 1
  /\ \E k \in 1..Len(auditReport.findings) : auditReport.findings[k].type = "unused-dependency"
  /\ \E k \in 1..Len(auditReport.findings) :
       auditReport.findings[k].type = "circular-dependency"

----------------------------------------------------------------------------
(* Claims about the SDK guardrails *)

SdkCalled == mode = "sdk" /\ pc = "validated"

\* C17: a validate() call with failOnWarning (or with strictMode) that finds at
\* least one violation gives a result of status failed.
C17_FailOnWarning ==
  ( /\ SdkCalled
    /\ ~sdkResult.thrown
    /\ sdkOpts.failOnWarning \/ sdkOpts.strictMode
    /\ sdkResult.violationsFound >= 1 )
  => sdkResult.status = "failed"

\* C18: a validate() call for which no configuration can be loaded (the engine
\* has none, and options.configPath names a file that does not exist or, when
\* it is not given, none of the standard locations has a file) does not throw:
\* it returns status error, score 0, filesScanned 0 and no violation.
C18_MissingConfiguration ==
  ( /\ SdkCalled
    /\ sdkConfig = "null"
    /\ \/ sdkOpts.configPath # "none" /\ sdkOpts.configPath \notin sdkDisk
       \/ sdkOpts.configPath = "none" /\ \A p \in SeqToSet(StandardPaths) : p \notin sdkDisk )
  => /\ ~sdkResult.thrown
     /\ sdkResult.status = "error"
     /\ sdkResult.score = 0
     /\ sdkResult.filesScanned = 0
     /\ sdkResult.violations = <<>>

====
